---- MODULE Spec2Model ----
(***************************************************************************)
(* State-machine model of the citation downloader of src/api_request.py:  *)
(* api_call (the fetcher with its status-driven retries), parse_url_params *)
(* (the cursor parser), paginate, get_citations (the downloader with its   *)
(* date-range split) and insert_many_to_db (the store writer), run against *)
(* a bibliographic server and a document store.                            *)
(*                                                                         *)
(* One behaviour is one call get_citations(citations_url).  The server's   *)
(* corpus (how many documents match the query, and the year of each) and   *)
(* the store's earlier contents are chosen in Init; the server's answer to *)
(* each request (success, 429, 504, 400, another status, a transport       *)
(* failure) and the store's answer to each batch are chosen at each step.  *)
(*                                                                         *)
(* Scale.  The source fetches SIZE = 100 documents per request and puts    *)
(* the result ceiling at 10e3 = 100 pages of that size.  The model keeps   *)
(* every comparison of the source and scales the two numbers: a page holds *)
(* PageSize documents and the ceiling is CeilingPages pages.               *)
(***************************************************************************)
EXTENDS Integers, Sequences, FiniteSets, TLC

\* ------------------------------------------------------------------ bounds

\* Documents the server may hold for the query.
MaxDocs == 5
\* Documents per page (stands for SIZE = 100).
PageSize == 2
\* Pages below the result ceiling (stands for 10e3 / SIZE = 100).
CeilingPages == 2
\* Only documents 1..MaxPreStored may be in the store before the call.
MaxPreStored == 2
\* 504 answers the server gives during one behaviour.
MaxTimeouts == 1
\* 'next' links the server repeats during one behaviour of SpecCursor.
MaxCursorRepeats == 1

\* --------------------------------------------------------------- parameters

SIZE == PageSize

FIELDS == "titles,authors.full_name,..."

\* The literal 10e3 of get_citations.
NUM_HITS_LIMIT == PageSize * CeilingPages

\* for date_range in ['2000--2015', '2016--2021'], each "lo--hi" as <<lo, hi>>.
DATE_RANGES == << <<2000, 2015>>, <<2016, 2021>> >>

\* Years a document may carry: before, inside the first and inside the second
\* of the two date ranges.
YEARS == {1995, 2005, 2018}

\* The x-retry-in header value a 429 answer carries (header values are text).
RETRY_IN == {"5"}

\* The query string of doc['links']['citations']: the search expression alone;
\* the server defaults apply to the rest (first page, no date filter).
citations_url == [q |-> "refersto:recid", page |-> 1, size |-> 1,
                  fields |-> "", earliest_date |-> <<>>]

VARIABLES
    corpus,               \* server: the documents matching q, in sort order
    db_collection,        \* store: the set of stored documents, keyed by _id
    log,                  \* diagnostic channel of the store writer
    pc,                   \* position in the code
    ret,                  \* where api_call returns to
    params,               \* api_call's argument
    attempt,              \* 1 for a caller's api_call, +1 per recursive retry
    timeouts,             \* 504 answers given so far
    response,             \* requests.get's outcome
    response_json,        \* the parsed body the caller holds
    gc_params,            \* get_citations' params
    num_total_citations,  \* get_citations' hits.total of the probe (-1: unset)
    date_idx,             \* index into DATE_RANGES (0: not splitting)
    citation_ids,         \* get_citations' list
    pg_ids,               \* paginate's list
    outcome,              \* running | returned | exited | crashed
    result,               \* get_citations' return value
    events,               \* history: requests, suspensions, store writes
    cursor_repeats,       \* server: 'next' links it may still repeat
    crawl,                \* the __main__ loop of api_request.py
    driver                \* the __main__ loop of download_references.py

vars == <<corpus, db_collection, log, pc, ret, params, attempt, timeouts,
          response, response_json, gc_params, num_total_citations, date_idx,
          citation_ids, pg_ids, outcome, result, events, cursor_repeats,
          crawl, driver>>

\* ------------------------------------------------------------------ helpers

Min(a, b) == IF a <= b THEN a ELSE b

\* The identifier the API gives document n: a numeral as text.
IdOf(n) == ToString(n)

\* int(citation['_id'])
int(s) == CHOOSE n \in 0..MaxDocs : ToString(n) = s

Ids(docs) == [i \in DOMAIN docs |-> docs[i]._id]

IntIds(docs) == [i \in DOMAIN docs |-> int(docs[i]._id)]

Range(s) == {s[i] : i \in DOMAIN s}

\* -------------------------------------------------------------- the server

\* earliest_date filter: unset matches every document.
InRange(d, earliest_date) ==
    \/ earliest_date = <<>>
    \/ earliest_date[1] <= d.year /\ d.year <= earliest_date[2]

Matching(p) ==
    LET Test(d) == InRange(d, p.earliest_date)
    IN  SelectSeq(corpus, Test)

Offset(p) == (p.page - 1) * p.size

\* The body of a successful answer: hits.total, the page's hits, links.next
\* when hits remain after this page.
ServerBody(p) ==
    LET m     == Matching(p)
        total == Len(m)
        last  == Min(Offset(p) + p.size, total)
    IN  [hits  |-> [total |-> total, hits |-> SubSeq(m, Offset(p) + 1, last)],
         links |-> IF Offset(p) + p.size < total
                   THEN [self |-> p, next |-> [p EXCEPT !.page = p.page + 1]]
                   ELSE [self |-> p]]

NoBody == [hits |-> [total |-> 0, hits |-> <<>>], links |-> [self |-> citations_url]]

HttpError(s, r) ==
    [exc |-> "HTTPError", status_code |-> s, x_retry_in |-> r, text |-> NoBody]

\* The body of a server that repeats a cursor: the page of p, with the link
\* that led to it for 'next'.
RepeatedCursorBody(p) ==
    [ServerBody(p) EXCEPT !.links = [self |-> p, next |-> p]]

\* What requests.get + raise_for_status may produce for params p.  The server
\* serves no result past the ceiling; any request may fail; a continuation
\* page may come with a repeated cursor while cursor_repeats lasts.
ServerResponses(p) ==
    (IF Offset(p) < NUM_HITS_LIMIT
     THEN {[exc |-> "none", status_code |-> 200, x_retry_in |-> "",
            text |-> ServerBody(p)]}
     ELSE {})
    \cup (IF Offset(p) < NUM_HITS_LIMIT /\ p.page > 1 /\ cursor_repeats > 0
          THEN {[exc |-> "none", status_code |-> 200, x_retry_in |-> "",
                 text |-> RepeatedCursorBody(p)]}
          ELSE {})
    \cup {HttpError(429, r) : r \in RETRY_IN}
    \cup {HttpError(s, "") : s \in {400, 500}}
    \cup (IF timeouts < MaxTimeouts THEN {HttpError(504, "")} ELSE {})
    \cup {[exc |-> "ConnectionError", status_code |-> 0, x_retry_in |-> "",
           text |-> NoBody]}

\* ------------------------------------------------------------- the fetcher

\* json_text.replace('"id"', '"_id"') then json.loads: every hit's "id" key
\* becomes "_id" (the '$ref' and '$schema' keys are not modelled).
Sanitize(text) ==
    LET hs == text.hits.hits
    IN  [text EXCEPT !.hits.hits =
            [i \in DOMAIN hs |->
                [_id |-> hs[i].id, year |-> hs[i].year, rev |-> hs[i].rev]]]

\* 'rate limited, sleeping for {:f.2}s'.format(timeout): 'f.2' is no format
\* specification (a precision precedes the type, '.2f'), so str.format raises
\* ValueError whatever timeout is.  Raised inside the except HTTPError block,
\* it is not caught by the except Exception clause beside it.
FormatRaises(timeout) == TRUE

\* if response.status_code == 429
RateLimited(status_code) == status_code = 429

\* A fetcher that also takes 400 for a timeout to retry.
ServerTimeout_Retry400(status_code) == status_code \in {504, 400}

\* if response.status_code == 504
ServerTimeout(status_code) == status_code = 504

\* params['size'] = SIZE; params['fields'] = FIELDS on the link's query.
parse_url_params(url) == [url EXCEPT !.size = SIZE, !.fields = FIELDS]

\* A history entry.  op "get": a request with its params, the attempt (1: the
\* caller's call, more: a retry), the status answered and the ids of the hits
\* answered.  op "sleep": a suspension of ids[1].  op "insert": a batch handed
\* to the store writer, with the batch's ids, how the call ended and the
\* indexes the store rejected for another reason than a duplicate key.
Ev(op, p, n, status, ids, rejected) ==
    [op |-> op, params |-> p, attempt |-> n, status |-> status, ids |-> ids,
     rejected |-> rejected]

\* Variables the fetcher leaves alone.
callerVars == <<corpus, db_collection, log, gc_params, num_total_citations,
                date_idx, citation_ids, pg_ids, result, crawl, driver>>

\* requests.get(BASE_URL, params) and raise_for_status().
ApiCall ==
    /\ pc = "api_call"
    /\ \E r \in ServerResponses(params) :
        /\ response' = r
        /\ timeouts' = IF r.status_code = 504 THEN timeouts + 1 ELSE timeouts
        /\ cursor_repeats' = IF r.text = RepeatedCursorBody(params)
                             THEN cursor_repeats - 1 ELSE cursor_repeats
        /\ events' = Append(events,
              Ev("get", params, attempt, ToString(r.status_code),
                 [i \in DOMAIN r.text.hits.hits |-> r.text.hits.hits[i].id], {}))
    /\ pc' = "api_response"
    /\ UNCHANGED <<callerVars, ret, params, attempt, response_json, outcome>>

\* else: sanitize, json.loads, return to the caller.
ApiSuccess ==
    /\ pc = "api_response"
    /\ response.exc = "none"
    /\ response_json' = Sanitize(response.text)
    /\ pc' = ret
    /\ UNCHANGED <<callerVars, cursor_repeats, ret, params, attempt, timeouts, response,
                   outcome, events>>

\* except HTTPError, status 429: read x-retry-in, log, sleep, api_call(params).
ApiRateLimited ==
    /\ pc = "api_response"
    /\ response.exc = "HTTPError"
    /\ RateLimited(response.status_code)
    /\ LET timeout == response.x_retry_in
       IN  IF FormatRaises(timeout)
           THEN /\ outcome' = "crashed"
                /\ pc' = "halt"
                /\ UNCHANGED <<attempt, events>>
           ELSE /\ events' = Append(events, Ev("sleep", params, attempt, "429", <<timeout>>, {}))
                /\ attempt' = attempt + 1
                /\ pc' = "api_call"
                /\ UNCHANGED outcome
    /\ UNCHANGED <<callerVars, cursor_repeats, ret, params, timeouts, response, response_json>>

\* except HTTPError, status 504: api_call(params) at once.
ApiGatewayTimeout ==
    /\ pc = "api_response"
    /\ response.exc = "HTTPError"
    /\ ~RateLimited(response.status_code)
    /\ ServerTimeout(response.status_code)
    /\ attempt' = attempt + 1
    /\ pc' = "api_call"
    /\ UNCHANGED <<callerVars, cursor_repeats, ret, params, timeouts, response, response_json,
                   outcome, events>>

\* except HTTPError, any other status: sys.exit().
ApiHttpError ==
    /\ pc = "api_response"
    /\ response.exc = "HTTPError"
    /\ ~RateLimited(response.status_code)
    /\ ~ServerTimeout(response.status_code)
    /\ outcome' = "exited"
    /\ pc' = "halt"
    /\ UNCHANGED <<callerVars, cursor_repeats, ret, params, attempt, timeouts, response,
                   response_json, events>>

\* except Exception (requests.get raised): sys.exit().
ApiTransportError ==
    /\ pc = "api_response"
    /\ response.exc \notin {"none", "HTTPError"}
    /\ outcome' = "exited"
    /\ pc' = "halt"
    /\ UNCHANGED <<callerVars, cursor_repeats, ret, params, attempt, timeouts, response,
                   response_json, events>>

\* -------------------------------------------------------- the store writer

IsStored(db, doc) == \E e \in db : e._id = doc._id

Msg(text, arg) == [msg |-> text, arg |-> arg]

\* A store writer that leaves ordered at its default: the batch stops at its
\* first failure, and that failure alone is reported.
insert_many_ordered(db, docs, bad) ==
    LET failed   == {i \in DOMAIN docs : IsStored(db, docs[i]) \/ i \in bad}
        first    == IF failed = {} THEN Len(docs) + 1
                    ELSE CHOOSE i \in failed : \A j \in failed : i <= j
        inserted == {docs[i] : i \in 1..(first - 1)}
        start    == <<Msg("inserting", ToString(Len(docs)))>>
    IN  IF docs = <<>>
        THEN [db |-> db, log |-> start, end |-> "crashed"]
        ELSE IF failed = {}
        THEN [db |-> db \cup inserted, log |-> start, end |-> "ok"]
        ELSE IF first \notin bad
        THEN [db  |-> db \cup inserted,
              log |-> start \o <<Msg("already in collection", docs[first]._id),
                                 Msg("Inserted", ToString(Cardinality(inserted)))>>,
              end |-> "ok"]
        ELSE [db  |-> db \cup inserted,
              log |-> start \o <<Msg("unknown error", docs[first]._id)>>,
              end |-> "exited"]

\* A store writer that replaces the stored document of a duplicate identifier.
insert_many_replacing(db, docs, bad) ==
    LET fresh == {docs[i] : i \in DOMAIN docs \ bad}
        kept  == {e \in db : \A d \in fresh : d._id # e._id}
        start == <<Msg("inserting", ToString(Len(docs)))>>
    IN  IF docs = <<>>
        THEN [db |-> db, log |-> start, end |-> "crashed"]
        ELSE [db |-> kept \cup fresh, log |-> start,
              end |-> IF bad = {} THEN "ok" ELSE "exited"]

\* A store writer whose handler looks at the first writeError only.
insert_many_first_error(db, docs, bad) ==
    LET failed   == {i \in DOMAIN docs : IsStored(db, docs[i]) \/ i \in bad}
        inserted == {docs[i] : i \in DOMAIN docs \ failed}
        first    == CHOOSE i \in failed : \A j \in failed : i <= j
        start    == <<Msg("inserting", ToString(Len(docs)))>>
    IN  IF docs = <<>>
        THEN [db |-> db, log |-> start, end |-> "crashed"]
        ELSE IF failed = {}
        THEN [db |-> db \cup inserted, log |-> start, end |-> "ok"]
        ELSE IF first \notin bad
        THEN [db  |-> db \cup inserted,
              log |-> start \o <<Msg("already in collection", docs[first]._id),
                                 Msg("Inserted", ToString(Cardinality(inserted)))>>,
              end |-> "ok"]
        ELSE [db  |-> db \cup inserted,
              log |-> start \o <<Msg("unknown error", docs[first]._id)>>,
              end |-> "exited"]

\* db_collection.insert_many(docs, ordered = False) and the BulkWriteError
\* handler.  bad: the indexes of the documents the store rejects for another
\* reason than a duplicate key.  Every document that is neither a duplicate nor
\* rejected is inserted; writeErrors come in index order and the handler stops
\* at the first that is not code 11000.  insert_many raises TypeError on an
\* empty list, which nothing catches.
insert_many_to_db(db, docs, bad) ==
    LET failed    == {i \in DOMAIN docs : IsStored(db, docs[i]) \/ i \in bad}
        inserted  == {docs[i] : i \in DOMAIN docs \ failed}
        firstBad  == IF bad = {} THEN Len(docs) + 1
                     ELSE CHOOSE i \in bad : \A j \in bad : i <= j
        IsDup(d)  == IsStored(db, d)
        dups      == SelectSeq(SubSeq(docs, 1, firstBad - 1), IsDup)
        reported  == [i \in DOMAIN dups |-> Msg("already in collection", dups[i]._id)]
        start     == <<Msg("inserting", ToString(Len(docs)))>>
    IN  IF docs = <<>>
        THEN [db |-> db, log |-> start, end |-> "crashed"]
        ELSE IF failed = {}
        THEN [db |-> db \cup inserted, log |-> start, end |-> "ok"]
        ELSE IF bad = {}
        THEN [db  |-> db \cup inserted,
              log |-> start \o reported
                      \o <<Msg("Inserted", ToString(Cardinality(inserted)))>>,
              end |-> "ok"]
        ELSE [db  |-> db \cup inserted,
              log |-> start \o reported \o <<Msg("unknown error", docs[firstBad]._id)>>,
              end |-> "exited"]

\* The rejections the store may answer a batch with.
Rejections(db, docs) == SUBSET {i \in DOMAIN docs : ~IsStored(db, docs[i])}

\* ---------------------------------------------- paginate and get_citations

\* A test that takes the ceiling for a number of pages.
PaginateDirectly_CountsPages(total) == total # 0 /\ total * SIZE <= NUM_HITS_LIMIT

\* A test without its guard against an empty result.
PaginateDirectly_NoZeroTest(total) == total <= NUM_HITS_LIMIT

\* num_total_citations != 0 and num_total_citations <= 10e3
PaginateDirectly(total) == total # 0 /\ total <= NUM_HITS_LIMIT

\* elif num_total_citations > 10e3
SplitByDate(total) == total > NUM_HITS_LIMIT

\* A list that leaves out the documents the store already holds.
Extend_OnlyNew(ids, hits) ==
    LET IsNew(d) == ~IsStored(db_collection, d)
    IN  ids \o IntIds(SelectSeq(hits, IsNew))

\* citation_ids.extend([int(citation['_id']) for citation in hits])
Extend(ids, hits) == ids \o IntIds(hits)

\* A test that goes on while the page answered holds documents.
HasNext_PageNotEmpty(json) == json.hits.hits # <<>>

\* 'next' in response_json['links'].keys()
HasNext(json) == "next" \in DOMAIN json.links

\* api_call(p), to come back at `site`.
CallApi(p, site) ==
    /\ params' = p
    /\ attempt' = 1
    /\ ret' = site
    /\ pc' = "api_call"

\* return ids
Return(ids) ==
    /\ result' = ids
    /\ outcome' = "returned"
    /\ pc' = "done"
    /\ UNCHANGED <<params, attempt, ret, gc_params, date_idx>>

\* The for loop's next iteration: params['earliest_date'] = date_range;
\* response_json = api_call(params).
NextRange(k) ==
    /\ date_idx' = k
    /\ gc_params' = [gc_params EXCEPT !.earliest_date = DATE_RANGES[k]]
    /\ CallApi(gc_params', "range")
    /\ UNCHANGED <<result, outcome>>

\* A loop that asks for the range it has just done with once more.
RangeDone_SameRange(ids) ==
    IF date_idx = 0 \/ date_idx = Len(DATE_RANGES)
    THEN Return(ids)
    ELSE NextRange(date_idx)

\* After a range is done with (ids: citation_ids by then): the regular branch
\* returns, the split branch goes on to the next date range or returns.
RangeDone(ids) ==
    IF date_idx = 0 \/ date_idx = Len(DATE_RANGES)
    THEN Return(ids)
    ELSE NextRange(date_idx + 1)

\* insert_many_to_db(hits) as a step of the caller: the store, the diagnostic
\* channel and the history change; the caller goes on only if it returns.
StoreWrite(hits, bad) ==
    LET ins == insert_many_to_db(db_collection, hits, bad)
    IN  /\ db_collection' = ins.db
        /\ log' = log \o ins.log
        /\ events' = Append(events, Ev("insert", params, 0, ins.end, Ids(hits), bad))

Abort(how) ==
    /\ outcome' = how
    /\ pc' = "halt"
    /\ UNCHANGED <<params, attempt, ret, gc_params, date_idx, citation_ids,
                   pg_ids, result>>

\* The first page of a range: insert it, extend citation_ids, and paginate if
\* the response has a 'next' link.
FirstPage ==
    LET hits == response_json.hits.hits
    IN  \E bad \in Rejections(db_collection, hits) :
          /\ StoreWrite(hits, bad)
          /\ LET end == insert_many_to_db(db_collection, hits, bad).end
             IN  IF end # "ok"
                 THEN Abort(end)
                 ELSE /\ citation_ids' = Extend(citation_ids, hits)
                      /\ IF HasNext(response_json)
                         THEN /\ pg_ids' = <<>>
                              /\ pc' = "paginate"
                              /\ UNCHANGED <<params, attempt, ret, gc_params,
                                             date_idx, result, outcome>>
                         ELSE /\ RangeDone(citation_ids')
                              /\ UNCHANGED pg_ids

fetchVars == <<corpus, timeouts, response, response_json, cursor_repeats,
               crawl, driver>>

\* get_citations up to its first api_call.
GetCitations ==
    /\ pc = "get_citations"
    /\ citation_ids' = <<>>
    /\ gc_params' = parse_url_params(citations_url)
    /\ CallApi(gc_params', "probe")
    /\ UNCHANGED <<fetchVars, db_collection, log, num_total_citations,
                   date_idx, pg_ids, outcome, result, events>>

\* if num_total_citations != 0 and num_total_citations <= 10e3: ...
GcRegular ==
    /\ pc = "probe"
    /\ PaginateDirectly(response_json.hits.total)
    /\ num_total_citations' = response_json.hits.total
    /\ FirstPage
    /\ UNCHANGED fetchVars

\* elif num_total_citations > 10e3: enter the for loop over the date ranges.
GcSplit ==
    /\ pc = "probe"
    /\ ~PaginateDirectly(response_json.hits.total)
    /\ SplitByDate(response_json.hits.total)
    /\ num_total_citations' = response_json.hits.total
    /\ NextRange(1)
    /\ UNCHANGED <<fetchVars, db_collection, log, citation_ids, pg_ids, events>>

\* else: return []
GcNone ==
    /\ pc = "probe"
    /\ ~PaginateDirectly(response_json.hits.total)
    /\ ~SplitByDate(response_json.hits.total)
    /\ num_total_citations' = response_json.hits.total
    /\ Return(<<>>)
    /\ UNCHANGED <<fetchVars, db_collection, log, citation_ids, pg_ids, events>>

\* The body of the for loop after its api_call.
GcRange ==
    /\ pc = "range"
    /\ FirstPage
    /\ UNCHANGED <<fetchVars, num_total_citations>>

\* paginate's while test, true: parse the 'next' link and fetch it.
\* response_json['links']['next'] raises KeyError, which nothing catches, if
\* the links hold no 'next'.
PgNext ==
    /\ pc = "paginate"
    /\ HasNext(response_json)
    /\ IF "next" \in DOMAIN response_json.links
       THEN /\ CallApi(parse_url_params(response_json.links.next), "page")
            /\ UNCHANGED outcome
       ELSE /\ outcome' = "crashed"
            /\ pc' = "halt"
            /\ UNCHANGED <<params, attempt, ret>>
    /\ UNCHANGED <<fetchVars, db_collection, log, gc_params,
                   num_total_citations, date_idx, citation_ids, pg_ids,
                   result, events>>

\* paginate's loop body after its api_call.
PgPage ==
    /\ pc = "page"
    /\ LET hits == response_json.hits.hits
       IN  \E bad \in Rejections(db_collection, hits) :
             /\ StoreWrite(hits, bad)
             /\ LET end == insert_many_to_db(db_collection, hits, bad).end
                IN  IF end # "ok"
                    THEN Abort(end)
                    ELSE /\ pg_ids' = Extend(pg_ids, hits)
                         /\ pc' = "paginate"
                         /\ UNCHANGED <<params, attempt, ret, gc_params,
                                        date_idx, citation_ids, result, outcome>>
    /\ UNCHANGED <<fetchVars, num_total_citations>>

\* paginate's while test, false: return citation_ids; the caller extends its
\* list with it and goes on.
PgReturn ==
    /\ pc = "paginate"
    /\ ~HasNext(response_json)
    /\ citation_ids' = citation_ids \o pg_ids
    /\ RangeDone(citation_ids')
    /\ UNCHANGED <<fetchVars, db_collection, log, num_total_citations,
                   pg_ids, events>>

\* -------------------------------------------------------- the specification

ServerDoc(n, y) == [id |-> IdOf(n), year |-> y, rev |-> "api"]

\* A document stored by an earlier crawl, under the same identifier.
EarlierDoc(d) == [_id |-> d.id, year |-> d.year, rev |-> "earlier"]

\* The two __main__ loops before they start.
NoCrawl == [phase |-> "idle"]
NoDriver == [phase |-> "idle"]

\* One call of get_citations about to start on some corpus and some store.
InitCitations ==
    /\ \E n \in 0..MaxDocs :
        \E years \in [1..n -> YEARS] :
            corpus = [i \in 1..n |-> ServerDoc(i, years[i])]
    /\ \E pre \in SUBSET (1..Min(Len(corpus), MaxPreStored)) :
            db_collection = {EarlierDoc(corpus[i]) : i \in pre}
    /\ log = <<>>
    /\ pc = "get_citations"
    /\ ret = "probe"
    /\ params = citations_url
    /\ attempt = 0
    /\ timeouts = 0
    /\ response = HttpError(0, "")
    /\ response_json = NoBody
    /\ gc_params = citations_url
    /\ num_total_citations = -1
    /\ date_idx = 0
    /\ citation_ids = <<>>
    /\ pg_ids = <<>>
    /\ outcome = "running"
    /\ result = <<>>
    /\ events = <<>>
    /\ crawl = NoCrawl
    /\ driver = NoDriver

\* A server that keeps to the protocol.
Init ==
    /\ InitCitations
    /\ cursor_repeats = 0

\* A server that may repeat a cursor.
InitCursor ==
    /\ InitCitations
    /\ cursor_repeats = MaxCursorRepeats

Next ==
    \/ GetCitations
    \/ ApiCall
    \/ ApiSuccess
    \/ ApiRateLimited
    \/ ApiGatewayTimeout
    \/ ApiHttpError
    \/ ApiTransportError
    \/ GcRegular
    \/ GcSplit
    \/ GcNone
    \/ GcRange
    \/ PgNext
    \/ PgPage
    \/ PgReturn

Spec == Init /\ [][Next]_vars

SpecCursor == InitCursor /\ [][Next]_vars

TypeOK ==
    /\ outcome \in {"running", "returned", "exited", "crashed"}
    /\ pc \in {"get_citations", "api_call", "api_response", "probe", "range",
               "paginate", "page", "done", "halt"}
    /\ date_idx \in 0..Len(DATE_RANGES)
    /\ \A d \in db_collection : \A e \in db_collection : d._id = e._id => d = e

\* ------------------------------------------------- api_request.py: __main__

\* Documents the top-level query matches.
MaxTop == 3

\* QUERY, SORT, SIZE, PAGE, FIELDS: the initial params of the crawl.
main_params == [q |-> "collaboration", page |-> 1, size |-> SIZE,
                fields |-> FIELDS, earliest_date |-> <<>>]

\* The year of the document of identifier n on the crawl's server.
CrawlYear(n) == IF n % 3 = 0 THEN 1995 ELSE IF n % 3 = 1 THEN 2005 ELSE 2018

\* The first c citing documents of the top-level document t: the documents
\* 1, 2, ... other than t, top-level documents among them.
CitingDocs(t, c) ==
    [k \in 1..c |-> IF k < t THEN ServerDoc(k, CrawlYear(k))
                           ELSE ServerDoc(k + 1, CrawlYear(k + 1))]

\* db_collection.insert_one(doc) and its handlers.  fail: the store raises
\* another exception than DuplicateKeyError.
insert_one_to_db(db, doc, fail) ==
    LET start == <<Msg("inserting document", doc._id)>>
    IN  IF fail
        THEN [db |-> db, log |-> start \o <<Msg("unknown error", doc._id)>>,
              end |-> "exited"]
        ELSE IF IsStored(db, doc)
        THEN [db |-> db, log |-> start \o <<Msg("duplicated key", doc._id)>>,
              end |-> "False"]
        ELSE [db |-> db \cup {doc}, log |-> start, end |-> "True"]

\* doc['citations_ids'] = citations_ids
WithCitations(doc, ids) ==
    [_id |-> doc._id, year |-> doc.year, rev |-> doc.rev, citations_ids |-> ids]

crawlVars == <<timeouts, cursor_repeats, driver, gc_params, citation_ids, pg_ids>>

\* while True: response_json = api_call(params)
CrawlPage ==
    /\ pc = "main"
    /\ corpus' = crawl.top
    /\ CallApi(crawl.params, "main_page")
    /\ UNCHANGED <<crawlVars, crawl, db_collection, log, response, response_json,
                   num_total_citations, date_idx, outcome, result, events>>

\* num_total_docs = response_json['hits']['total']; the for loop starts.
CrawlHits ==
    /\ pc = "main_page"
    /\ crawl' = [crawl EXCEPT !.response_json = response_json, !.i = 1]
    /\ pc' = "main_doc"
    /\ UNCHANGED <<crawlVars, corpus, db_collection, log, response, response_json,
                   params, attempt, ret, num_total_citations, date_idx, outcome,
                   result, events>>

\* for doc in hits: citations_url = doc['links']['citations'];
\* citations_ids = get_citations(citations_url) is called.
CrawlDoc ==
    /\ pc = "main_doc"
    /\ crawl.i <= Len(crawl.response_json.hits.hits)
    /\ corpus' = crawl.cites[int(crawl.response_json.hits.hits[crawl.i]._id)]
    /\ num_total_citations' = -1
    /\ date_idx' = 0
    /\ outcome' = "running"
    /\ pc' = "get_citations"
    /\ UNCHANGED <<crawlVars, crawl, db_collection, log, response, response_json,
                   params, attempt, ret, result, events>>

\* get_citations has returned: doc['citations_ids'] = citations_ids;
\* insert_one_to_db(doc); num_docs += 1.
CrawlInsert ==
    /\ pc = "done"
    /\ crawl.phase = "crawl"
    /\ \E fail \in BOOLEAN :
        LET doc == WithCitations(crawl.response_json.hits.hits[crawl.i], result)
            ins == insert_one_to_db(db_collection, doc, fail)
        IN  /\ db_collection' = ins.db
            /\ log' = log \o ins.log
            /\ events' = Append(events,
                    Ev("insert_one", crawl.params, 0, ins.end, <<doc._id>>, {}))
            /\ IF ins.end = "exited"
               THEN /\ outcome' = "exited"
                    /\ pc' = "halt"
                    /\ UNCHANGED crawl
               ELSE /\ outcome' = "running"
                    /\ pc' = "main_doc"
                    /\ crawl' = [crawl EXCEPT !.i = @ + 1, !.num_docs = @ + 1,
                                              !.returned = Append(@, result)]
    /\ UNCHANGED <<crawlVars, corpus, response, response_json, params, attempt,
                   ret, num_total_citations, date_idx, result>>

\* if 'next' in response_json['links'].keys(): params = parse_qs(next query)
CrawlNext ==
    /\ pc = "main_doc"
    /\ crawl.i > Len(crawl.response_json.hits.hits)
    /\ HasNext(crawl.response_json)
    /\ crawl' = [crawl EXCEPT !.params = crawl.response_json.links.next]
    /\ pc' = "main"
    /\ UNCHANGED <<crawlVars, corpus, db_collection, log, response, response_json,
                   params, attempt, ret, num_total_citations, date_idx, outcome,
                   result, events>>

\* else: logging.info('END'); break
CrawlEnd ==
    /\ pc = "main_doc"
    /\ crawl.i > Len(crawl.response_json.hits.hits)
    /\ ~HasNext(crawl.response_json)
    /\ crawl' = [crawl EXCEPT !.phase = "END"]
    /\ pc' = "end"
    /\ log' = Append(log, Msg("END", ""))
    /\ UNCHANGED <<crawlVars, corpus, db_collection, response, response_json,
                   params, attempt, ret, num_total_citations, date_idx, outcome,
                   result, events>>

\* The crawl about to start on an empty store: the top-level query matches
\* the documents 1..n, each with some number of citing documents.
InitCrawl ==
    /\ \E n \in 1..MaxTop : \E c \in [1..n -> 0..MaxDocs] :
        crawl = [phase |-> "crawl",
                 top |-> [t \in 1..n |-> ServerDoc(t, CrawlYear(t))],
                 cites |-> [t \in 1..n |-> CitingDocs(t, c[t])],
                 params |-> main_params,
                 response_json |-> NoBody,
                 i |-> 0,
                 num_docs |-> 0,
                 returned |-> <<>>]
    /\ corpus = crawl.top
    /\ db_collection = {}
    /\ log = <<>>
    /\ pc = "main"
    /\ ret = "main_page"
    /\ params = main_params
    /\ attempt = 0
    /\ timeouts = 0
    /\ response = HttpError(0, "")
    /\ response_json = NoBody
    /\ gc_params = citations_url
    /\ num_total_citations = -1
    /\ date_idx = 0
    /\ citation_ids = <<>>
    /\ pg_ids = <<>>
    /\ outcome = "running"
    /\ result = <<>>
    /\ events = <<>>
    /\ cursor_repeats = 0
    /\ driver = NoDriver

NextCrawl ==
    \/ CrawlPage
    \/ CrawlHits
    \/ CrawlDoc
    \/ CrawlInsert
    \/ CrawlNext
    \/ CrawlEnd
    \/ GetCitations
    \/ ApiCall
    \/ ApiSuccess
    \/ ApiRateLimited
    \/ ApiGatewayTimeout
    \/ ApiHttpError
    \/ ApiTransportError
    \/ GcRegular
    \/ GcSplit
    \/ GcNone
    \/ GcRange
    \/ PgNext
    \/ PgPage
    \/ PgReturn

SpecCrawl == InitCrawl /\ [][NextCrawl]_vars

\* ------------------------------------------- download_references.py: __main__

\* Parent documents in the store, citing documents of a parent, runs of the
\* script.
MaxParents == 2
MaxCiting == 2
MaxRuns == 2

ParentDoc(p) == [id |-> p, is_parent_document |-> TRUE]

CitingDoc(k) == [id |-> k, is_parent_document |-> FALSE]

\* The identifiers of the first c documents that refer to a parent.
DriverCiting(c) == [k \in 1..c |-> MaxParents + k]

\* The elements of a set of numbers in ascending order.
AsList(S) ==
    [k \in 1..Cardinality(S) |->
        CHOOSE x \in S : Cardinality({y \in S : y < x}) = k - 1]

\* find({"is_parent_document": True, "cited_by": {"$exists": False}}, {'id': 1})
Documents(db) ==
    AsList({e.id : e \in {d \in db : d.is_parent_document
                                      /\ "cited_by" \notin DOMAIN d}})

\* api_request.download_docs(query_params, db_collection): it returns the
\* identifiers of all the documents of the query, having persisted them; or a
\* fatal error ends the process with the first `done` documents persisted.
download_docs(db, citing, fatal, done) ==
    LET n         == IF fatal THEN done ELSE Len(citing)
        persisted == {CitingDoc(citing[k]) : k \in 1..n}
        fresh     == {d \in persisted : \A e \in db : e.id # d.id}
    IN  [db  |-> db \cup fresh,
         ids |-> IF fatal THEN <<>> ELSE citing,
         end |-> IF fatal THEN "exited" ELSE "returned"]

\* An update whose filter matches every parent document.
update_one_any_parent(db, doc_id, ids) ==
    {IF e.is_parent_document
     THEN [id |-> e.id, is_parent_document |-> TRUE, cited_by |-> ids]
     ELSE e : e \in db}

\* update_one({"id": doc_id}, {"$set": {"cited_by": ids_downloaded}})
update_one(db, doc_id, ids) ==
    {IF e.id = doc_id
     THEN [id |-> e.id, is_parent_document |-> e.is_parent_document,
           cited_by |-> ids]
     ELSE e : e \in db}

citationsVars == <<corpus, log, pc, ret, params, attempt, timeouts, response,
                   response_json, gc_params, num_total_citations, date_idx,
                   citation_ids, pg_ids, outcome, result, events,
                   cursor_repeats, crawl>>

\* documents = list(db_collection.find(...)); num_docs = len(documents)
DriverFind ==
    /\ driver.phase = "find"
    /\ driver' = [driver EXCEPT !.documents = Documents(db_collection),
                                !.i = 1, !.phase = "loop"]
    /\ UNCHANGED <<citationsVars, db_collection>>

\* for i, document in enumerate(documents): doc_id, query_params;
\* ids_downloaded = api_request.download_docs(query_params, db_collection)
DriverDownload ==
    /\ driver.phase = "loop"
    /\ driver.i <= Len(driver.documents)
    /\ LET doc_id == driver.documents[driver.i]
           citing == driver.cites[doc_id]
       IN  \E fatal \in BOOLEAN : \E done \in 0..Len(citing) :
             LET dl == download_docs(db_collection, citing, fatal, done)
             IN  /\ db_collection' = dl.db
                 /\ driver' =
                      IF dl.end = "returned"
                      THEN [driver EXCEPT !.ids_downloaded = dl.ids,
                                          !.completed = @ \cup {doc_id},
                                          !.phase = "update"]
                      ELSE [driver EXCEPT !.aborted = doc_id,
                                          !.phase = "exited"]
    /\ UNCHANGED citationsVars

\* db_collection.update_one({"id": doc_id}, {"$set": {"cited_by": ...}}); the
\* store may raise, which nothing catches.
DriverUpdate ==
    /\ driver.phase = "update"
    /\ \E fail \in BOOLEAN :
        IF fail
        THEN /\ driver' = [driver EXCEPT !.phase = "crashed"]
             /\ UNCHANGED db_collection
        ELSE /\ db_collection' = update_one(db_collection,
                                            driver.documents[driver.i],
                                            driver.ids_downloaded)
             /\ driver' = [driver EXCEPT !.i = @ + 1, !.phase = "loop"]
    /\ UNCHANGED citationsVars

\* The for loop is exhausted: the script ends.
DriverFinish ==
    /\ driver.phase = "loop"
    /\ driver.i > Len(driver.documents)
    /\ driver' = [driver EXCEPT !.phase = "finished"]
    /\ UNCHANGED <<citationsVars, db_collection>>

\* The script is started again on the same store: connect, create_index.
DriverRerun ==
    /\ driver.phase \in {"exited", "crashed", "finished"}
    /\ driver.run < MaxRuns
    /\ driver' = [driver EXCEPT !.run = @ + 1, !.phase = "find",
                                !.documents = <<>>, !.i = 0,
                                !.ids_downloaded = <<>>,
                                !.prev_aborted = driver.aborted,
                                !.aborted = 0]
    /\ UNCHANGED <<citationsVars, db_collection>>

\* The first run about to start: the store holds the parent documents, none
\* with cited_by yet.
InitDriver ==
    /\ \E n \in 1..MaxParents : \E c \in [1..n -> 0..MaxCiting] :
        /\ driver = [phase |-> "find", run |-> 1,
                     cites |-> [p \in 1..n |-> DriverCiting(c[p])],
                     documents |-> <<>>, i |-> 0, ids_downloaded |-> <<>>,
                     completed |-> {}, aborted |-> 0, prev_aborted |-> 0]
        /\ db_collection = {ParentDoc(p) : p \in 1..n}
    /\ corpus = <<>>
    /\ log = <<>>
    /\ pc = "driver"
    /\ ret = "driver"
    /\ params = citations_url
    /\ attempt = 0
    /\ timeouts = 0
    /\ response = HttpError(0, "")
    /\ response_json = NoBody
    /\ gc_params = citations_url
    /\ num_total_citations = -1
    /\ date_idx = 0
    /\ citation_ids = <<>>
    /\ pg_ids = <<>>
    /\ outcome = "running"
    /\ result = <<>>
    /\ events = <<>>
    /\ cursor_repeats = 0
    /\ crawl = NoCrawl

NextDriver ==
    \/ DriverFind
    \/ DriverDownload
    \/ DriverUpdate
    \/ DriverFinish
    \/ DriverRerun

SpecDriver == InitDriver /\ [][NextDriver]_vars

\* ------------------------------------------------------------------ claims

LastEvent == events[Len(events)]

NoDuplicates(ids) == \A i \in DOMAIN ids : \A j \in DOMAIN ids : ids[i] = ids[j] => i = j

\* The identifiers an exhaustive pagination of the unsplit query would yield.
AllIds == {int(corpus[i].id) : i \in DOMAIN corpus}

\* The step hands a batch to the store writer.
InsertStep ==
    /\ Len(events') = Len(events) + 1
    /\ events'[Len(events')].op = "insert"

\* C1 (as stated): when the probed total is at or above the ceiling and
\* get_citations returns, its list holds no identifier twice, holds exactly the
\* identifiers of all the documents matching the unsplit query, and each of
\* them is in the store.
C1_CompleteAboveCeiling ==
    (outcome = "returned" /\ num_total_citations >= NUM_HITS_LIMIT) =>
        /\ NoDuplicates(result)
        /\ Range(result) = AllIds
        /\ \A i \in DOMAIN corpus :
              \E e \in db_collection : e._id = corpus[i].id

\* C2: a batch handed to the store writer that mixes stored and new
\* identifiers, none rejected for another reason: afterwards the store is the
\* old store plus the batch's new documents, the stored documents are as they
\* were, the diagnostic channel names exactly the duplicates (in batch order),
\* and the call returns to the traversal.
C2_MixedBatch ==
    [][ LET batch == response_json.hits.hits
            IsDup(d) == IsStored(db_collection, d)
            dups  == SelectSeq(batch, IsDup)
            new   == {batch[i] : i \in {j \in DOMAIN batch : ~IsDup(batch[j])}}
        IN  ( /\ InsertStep
              /\ events'[Len(events')].rejected = {}
              /\ dups # <<>>
              /\ new # {} )
            =>
            ( /\ db_collection' = db_collection \cup new
              /\ \A e \in db_collection : e \in db_collection'
              /\ log' = log
                        \o <<Msg("inserting", ToString(Len(batch)))>>
                        \o [i \in DOMAIN dups |->
                               Msg("already in collection", dups[i]._id)]
                        \o <<Msg("Inserted", ToString(Cardinality(new)))>>
              /\ events'[Len(events')].status = "ok"
              /\ outcome' \in {"running", "returned"}
              /\ pc' # "halt" )
      ]_vars

\* C2's case: the last step inserted a batch of which one document was a
\* duplicate and another was new, and the traversal goes on.
C2_Witness ==
    /\ events # <<>>
    /\ LastEvent.op = "insert"
    /\ LastEvent.status = "ok"
    /\ outcome = "running"
    /\ \E i \in DOMAIN LastEvent.ids : \E j \in DOMAIN LastEvent.ids :
          /\ \E e \in db_collection : e._id = LastEvent.ids[i] /\ e.rev = "earlier"
          /\ \E e \in db_collection : e._id = LastEvent.ids[j] /\ e.rev = "api"

\* C3 (as stated): on a 429 answer the fetcher suspends for the x-retry-in
\* duration, then issues the same request again, without a fatal error or an
\* uncaught failure.
C3_RetryAfter429 ==
    [][ (pc = "api_response" /\ response.status_code = 429)
        =>
        ( /\ outcome' = "running"
          /\ pc' = "api_call"
          /\ params' = params
          /\ events' = Append(events,
                Ev("sleep", params, attempt, "429", <<response.x_retry_in>>, {})) )
      ]_vars

\* The answers after which api_call must end the process.
FatalResponse ==
    \/ response.exc = "HTTPError" /\ response.status_code \notin {429, 504}
    \/ response.exc = "ConnectionError"

\* C4: on HTTP 400, another HTTP error status than 429 and 504, or a transport
\* failure, the step taken is the exit: no request is issued again, nothing
\* is returned to the caller, the store is not written; and nothing follows an
\* exit.
C4_FatalExit ==
    [][ /\ (pc = "api_response" /\ FatalResponse)
           =>
           ( /\ outcome' = "exited"
             /\ pc' = "halt"
             /\ events' = events
             /\ db_collection' = db_collection
             /\ response_json' = response_json
             /\ result' = result )
        /\ (outcome = "exited") => (vars' = vars)
      ]_vars

\* C4's case: a 400 answer to a continuation page ended the process after an
\* earlier page was stored.
C4_Witness ==
    /\ outcome = "exited"
    /\ response.status_code = 400
    /\ LastEvent.op = "get"
    /\ LastEvent.status = "400"
    /\ \E i \in DOMAIN events : events[i].op = "insert"

\* The successful requests, in order.
OkGets ==
    LET IsOk(e) == e.op = "get" /\ e.status = "200"
    IN  SelectSeq(events, IsOk)

\* The documents of the unsplit query, in server order, as get_citations
\* lists them.
AllIdsInOrder == [i \in DOMAIN corpus |-> int(corpus[i].id)]

\* C5: when the probed total is non-zero and below the ceiling, no request
\* carries a date range: the requests are the query's pages 1, 2, ... in order,
\* each fetched once, and the list returned is the whole range's.
C5_NoSplitBelowCeiling ==
    (num_total_citations > 0 /\ num_total_citations < NUM_HITS_LIMIT) =>
        /\ date_idx = 0
        /\ \A i \in DOMAIN events :
              events[i].op = "get" =>
                  /\ events[i].params.earliest_date = <<>>
                  /\ events[i].params.q = citations_url.q
        /\ \A k \in DOMAIN OkGets : OkGets[k].params.page = k
        /\ outcome = "returned" =>
              /\ result = AllIdsInOrder
              /\ Len(OkGets) * SIZE >= num_total_citations

\* C5's case: a total one below the ceiling, paginated over several pages.
C5_Witness ==
    /\ outcome = "returned"
    /\ num_total_citations = NUM_HITS_LIMIT - 1
    /\ Len(OkGets) >= 2

\* C6 (as stated): the store writer and the paginator only ever get a page of
\* a range whose hit count is below the ceiling.
C6_PaginateOnlyBelowCeiling ==
    \A i \in DOMAIN events :
        events[i].op = "insert" =>
            Len(Matching(events[i].params)) < NUM_HITS_LIMIT

\* The Range Splitter of the claim: [lo, lo+w] and [lo+w+1, hi], w = floor((hi-lo)/2).
SplitRange(lo, hi) ==
    LET w == (hi - lo) \div 2
    IN  << <<lo, lo + w>>, <<lo + w + 1, hi>> >>

\* C7 (as stated): the date ranges the downloader queries are the two halves
\* of the range they cover together.
C7_SplitInHalves ==
    LET lo == DATE_RANGES[1][1]
        hi == DATE_RANGES[Len(DATE_RANGES)][2]
    IN  \A i \in DOMAIN events :
            (events[i].op = "get" /\ events[i].params.earliest_date # <<>>) =>
                events[i].params.earliest_date \in Range(SplitRange(lo, hi))

\* C8: when the probe reports zero hits, get_citations has made one call of the
\* fetcher (every request is that call's or a retry of it), has written
\* nothing to the store, and returns the empty list.
C8_ZeroHits ==
    /\ ((pc = "probe" /\ response_json.hits.total = 0) \/ num_total_citations = 0) =>
          /\ Cardinality({i \in DOMAIN events : events[i].attempt = 1}) = 1
          /\ \A i \in DOMAIN events :
                /\ events[i].op = "get"
                /\ events[i].params = parse_url_params(citations_url)
          /\ log = <<>>
    /\ num_total_citations = 0 =>
          /\ outcome = "returned"
          /\ result = <<>>

\* C8's case: get_citations has returned on a probe of zero hits.
C8_Witness ==
    /\ num_total_citations = 0
    /\ outcome = "returned"
    /\ corpus = <<>>

\* A successful request whose page a caller consumes: every one but the probe
\* of a query that is then split or empty.
Consumed(e) ==
    /\ e.op = "get"
    /\ e.status = "200"
    /\ (e.params.earliest_date # <<>> \/ PaginateDirectly(Len(corpus)))

RECURSIVE InsertedIds(_)
\* The identifiers of the batches handed to the store writer, in order.
InsertedIds(evs) ==
    IF evs = <<>> THEN <<>>
    ELSE (IF Head(evs).op = "insert"
          THEN [i \in DOMAIN Head(evs).ids |-> int(Head(evs).ids[i])]
          ELSE <<>>) \o InsertedIds(Tail(evs))

\* C9: every fetched page is handed to the store writer before anything else
\* is requested, and the list returned is, in server order, the identifiers of
\* every document of every fetched page, stored before or not.
C9_PageStoredBeforeNext ==
    /\ \A i \in DOMAIN events :
          (Consumed(events[i]) /\ i < Len(events)) =>
              /\ events[i + 1].op = "insert"
              /\ events[i + 1].ids = events[i].ids
    /\ outcome = "returned" => result = InsertedIds(events)
    /\ (outcome = "returned" /\ PaginateDirectly(Len(corpus))) =>
          result = AllIdsInOrder

\* C9's case: a pagination over several pages has returned, and a document of
\* its list was in the store before.
C9_Witness ==
    /\ outcome = "returned"
    /\ date_idx = 0
    /\ Len(result) > SIZE
    /\ \E e \in db_collection : e.rev = "earlier" /\ int(e._id) \in Range(result)

\* C10: no step removes or changes a stored document.
C10_StoreOnlyGrows ==
    [][ \A e \in db_collection : e \in db_collection' ]_vars

\* C10's case: a fatal exit after this crawl stored a page on top of the
\* earlier contents.
C10_Witness ==
    /\ outcome = "exited"
    /\ \E e \in db_collection : e.rev = "earlier"
    /\ \E e \in db_collection : e.rev = "api"

\* C11 (as stated): after a 504 answer the fetcher suspends before it issues
\* the request again: in the history a suspension follows every 504 answer
\* that is followed by anything.
C11_SuspendAfter504 ==
    \A i \in DOMAIN events :
        (events[i].op = "get" /\ events[i].status = "504" /\ i < Len(events)) =>
            events[i + 1].op = "sleep"

\* A successful answer without a 'next' link.
LastPage(e) ==
    /\ e.op = "get"
    /\ e.status = "200"
    /\ "next" \notin DOMAIN ServerBody(e.params).links

\* C12: after an answer without a 'next' link nothing more is requested for
\* that query and range; when the first answer of a query has none, that one
\* fetch is the whole pagination and the identifiers of its page are returned
\* (unless the store rejects a document of the page).
C12_NoNextEndsPagination ==
    /\ \A i \in DOMAIN events : \A j \in DOMAIN events :
          (i < j /\ LastPage(events[i]) /\ events[j].op = "get") =>
              events[j].params.earliest_date # events[i].params.earliest_date
    /\ (num_total_citations # -1 /\ LastPage(OkGets[1])) =>
          /\ Len(OkGets) = 1
          /\ \/ /\ outcome = "returned"
                /\ result = [i \in DOMAIN OkGets[1].ids |-> int(OkGets[1].ids[i])]
             \/ /\ outcome = "exited"
                /\ LastEvent.op = "insert"
                /\ LastEvent.rejected # {}

\* C12's case: a query answered by one full page without a 'next' link has
\* returned that page's identifiers.
C12_Witness ==
    /\ outcome = "returned"
    /\ Len(OkGets) = 1
    /\ Len(result) = SIZE

\* C14: a batch with a failure that is no duplicate key ends the process,
\* wherever the failure stands among the batch's duplicates; a batch (not
\* empty) whose failures are all duplicate keys does not.
C14_OtherWriteErrorIsFatal ==
    [][ InsertStep =>
          LET e == events'[Len(events')]
          IN  /\ e.rejected # {} =>
                    (outcome' = "exited" /\ pc' = "halt" /\ e.status = "exited")
              /\ (e.rejected = {} /\ e.ids # <<>>) =>
                    (outcome' \in {"running", "returned"} /\ e.status = "ok")
      ]_vars

\* C14's case: the process has exited on a batch whose rejected document came
\* after a duplicate, which was reported first.
C14_Witness ==
    /\ outcome = "exited"
    /\ LastEvent.op = "insert"
    /\ LastEvent.rejected # {}
    /\ Len(log) >= 2
    /\ log[Len(log)].msg = "unknown error"
    /\ log[Len(log) - 1].msg = "already in collection"

\* The first requests of the ranges: the probe and one per date range.
RangeProbes ==
    {i \in DOMAIN events :
        events[i].op = "get" /\ events[i].attempt = 1 /\ events[i].params.page = 1}

\* C15: get_citations probes the query once and each date range at most once,
\* whatever the hit counts of the ranges, and is never stuck before it returns
\* or exits.
C15_BoundedSplits ==
    /\ Cardinality(RangeProbes) <= 1 + Len(DATE_RANGES)
    /\ \A i \in RangeProbes : \A j \in RangeProbes :
          events[i].params = events[j].params => i = j
    /\ outcome = "running" => ENABLED Next

\* C15's case: the first date range alone reaches the ceiling; the traversal
\* has paginated it up to the ceiling and exited on the server's refusal.
C15_Witness ==
    /\ outcome = "exited"
    /\ date_idx = 1
    /\ Len(Matching(gc_params)) >= NUM_HITS_LIMIT
    /\ Offset(params) >= NUM_HITS_LIMIT

\* C16 (as stated): the store writer is only ever handed a batch that is not
\* empty.
C16_NoEmptyBatch ==
    \A i \in DOMAIN events :
        events[i].op = "insert" => events[i].ids # <<>>

\* C13: the paginator never fetches the same continuation reference twice: no
\* two requests of one pagination start on the same link, whatever 'next'
\* links the server sends.
C13_NoCursorTwice ==
    \A i, j \in 1..Len(events) :
        ( /\ i < j
          /\ events[i].op = "get" /\ events[j].op = "get"
          /\ events[i].attempt = 1 /\ events[j].attempt = 1
          /\ events[i].params.page > 1 )
        => events[i].params # events[j].params

\* C18: when the crawl loop ends normally, every document of the top-level
\* query is in the store together with the list get_citations returned for
\* it, a document stored earlier in the crawl as a citing document included.
C18_TopDocsStoredWithCitations ==
    crawl.phase = "END" =>
        \A k \in DOMAIN crawl.top :
            \E e \in db_collection :
                /\ e._id = crawl.top[k].id
                /\ "citations_ids" \in DOMAIN e
                /\ e.citations_ids = crawl.returned[k]

HasCitedBy(p) ==
    \E e \in db_collection : e.id = p /\ "cited_by" \in DOMAIN e

\* C17: a parent has cited_by only after the download of its citing documents
\* returned: it then holds the identifiers of all of them and all of them are
\* stored; a parent whose download was aborted by a fatal exit has no cited_by
\* and is among the documents the next run selects.
C17_CitedByOnlyAfterDownload ==
    /\ \A e \in db_collection :
        (e.is_parent_document /\ "cited_by" \in DOMAIN e) =>
            /\ e.id \in driver.completed
            /\ e.cited_by = driver.cites[e.id]
            /\ \A k \in Range(e.cited_by) : CitingDoc(k) \in db_collection
    /\ driver.aborted # 0 => ~HasCitedBy(driver.aborted)
    /\ (driver.prev_aborted # 0 /\ driver.phase # "find") =>
            driver.prev_aborted \in Range(driver.documents)

\* A second run that has selected the parent the first run was aborted on,
\* next to a parent whose cited_by the first run stored.
C17_Witness ==
    /\ driver.phase = "loop"
    /\ driver.run = 2
    /\ driver.prev_aborted # 0
    /\ driver.prev_aborted \in Range(driver.documents)
    /\ \E e \in db_collection : e.is_parent_document /\ "cited_by" \in DOMAIN e

====
